---- MODULE Spec2Model ----
(***************************************************************************)
(* Model of the portfolio accounting and performance analytics of          *)
(* VectorBacktest:                                                         *)
(*   - MarketOnOpenPortfolio  (src/RandomForecastStrategy.py)              *)
(*   - MarketOnClosePortfolio (src/ma_cross.py)                            *)
(*   - create_long_short_market_signals (src/mr_spy_iwm.py)                *)
(*   - create_drawdowns (src/performance/performance.py)                   *)
(*   - MarketIntradayPortfolio (src/snp_forecast.py)                       *)
(*   - create_portfolio_returns (src/mr_spy_iwm.py)                        *)
(*                                                                         *)
(* A run of the model is one call of one of these routines on one input.   *)
(* pandas cells are floats that may be NaN: a cell is a record             *)
(* [nan, v]; arithmetic propagates NaN and NaN == x is false, as in        *)
(* IEEE-754.  All defined values of the model are integers, which floats   *)
(* represent exactly.                                                      *)
(***************************************************************************)
EXTENDS Integers, Sequences, FiniteSets, TLC

VARIABLES
    running,        \* routine being run: "latch", "drawdowns", "open", "close"
    pc,             \* "run" while the routine runs, "done" after its return
    \* ---- create_long_short_market_signals
    z_entry_threshold,   \* parameter
    z_exit_threshold,    \* parameter
    pairs,          \* the pairs table: one record per bar
    i,              \* bars already scanned by the loop (enumerate index)
    long_market,    \* local flag
    short_market,   \* local flag
    \* ---- create_drawdowns
    equity_curve,   \* the input series
    t,              \* next loop index (range(1, len))
    hwm,            \* python list, hwm[1] is python's hwm[0]
    drawdown,       \* pd.Series of cells
    duration,       \* pd.Series of cells
    dd_result,      \* the returned pair
    \* ---- MarketOnOpenPortfolio / MarketOnClosePortfolio
    bars,           \* sequence of [Open, Close]
    signals,        \* sequence of signal values
    initial_capital,
    positions,      \* self.positions[symbol], set by __init__
    portfolio       \* the returned table: one record per bar

vars == <<running, pc, z_entry_threshold, z_exit_threshold, pairs, i, long_market, short_market,
          equity_curve, t, hwm, drawdown, duration, dd_result,
          bars, signals, initial_capital, positions, portfolio>>

latchVars == <<z_entry_threshold, z_exit_threshold, pairs, i, long_market, short_market>>
ddVars    == <<equity_curve, t, hwm, drawdown, duration, dd_result>>
acctVars  == <<bars, signals, initial_capital, positions, portfolio>>

(***************************************************************************)
(* Bounds                                                                  *)
(***************************************************************************)
MaxBars  == 3      \* longest generic trigger table of the latch
MaxCurve == 3      \* longest generic equity curve
MaxDays  == 3      \* longest generic bar series of the accountants
MaxAfterWarmUp == 1   \* most bars after the warm-up of the intraday accountant
MaxPairs == 3      \* longest pairs table given to create_portfolio_returns

(***************************************************************************)
(* Float cells                                                             *)
(***************************************************************************)
NaN == [nan |-> TRUE, v |-> 0]

F(x) == [nan |-> FALSE, v |-> x]

IsDef(c) == ~c.nan

FAdd(a, b) == IF a.nan \/ b.nan THEN NaN ELSE F(a.v + b.v)

FSub(a, b) == IF a.nan \/ b.nan THEN NaN ELSE F(a.v - b.v)

FMul(a, b) == IF a.nan \/ b.nan THEN NaN ELSE F(a.v * b.v)

\* the == of floats: false as soon as one side is NaN
FEq(a, b) == ~a.nan /\ ~b.nan /\ a.v = b.v

Max2(a, b) == IF a >= b THEN a ELSE b

SeqsUpTo(S, n) == UNION {[1..k -> S] : k \in 1..n}

(***************************************************************************)
(* create_long_short_market_signals: the loop body on one row.             *)
(* Returns the two local flags after the three tests.                      *)
(***************************************************************************)
\* the exit branch forgets to clear the long flag
LatchRow_ExitKeepsLong(lm, sm, row) ==
    LET lm1 == IF row.longs = 1 THEN 1 ELSE lm
        sm1 == IF row.shorts = 1 THEN 1 ELSE sm
    IN  IF row.exits = 1 THEN <<lm1, 0>> ELSE <<lm1, sm1>>

\* an entry clears the opposite flag
LatchRow_EntryOverrides(lm, sm, row) ==
    LET lm1 == IF row.longs = 1 THEN 1 ELSE lm
        sm1 == IF row.longs = 1 THEN 0 ELSE sm
        lm2 == IF row.shorts = 1 THEN 0 ELSE lm1
        sm2 == IF row.shorts = 1 THEN 1 ELSE sm1
    IN  IF row.exits = 1 THEN <<0, 0>> ELSE <<lm2, sm2>>

LatchRow(lm, sm, row) ==
    LET lm1 == IF row.longs = 1 THEN 1 ELSE lm
        sm1 == IF row.shorts = 1 THEN 1 ELSE sm
    IN  IF row.exits = 1 THEN <<0, 0>> ELSE <<lm1, sm1>>

(***************************************************************************)
(* z-scores and thresholds are counted in halves: 4 is 2.0, 3 is 1.5.      *)
(***************************************************************************)
Abs(x) == IF x < 0 THEN -x ELSE x

ZScores == {-4, -3, 0, 3, 4}

\* <<z_entry_threshold, z_exit_threshold>>; <<4, 2>> are the defaults
DefaultThresholds == <<4, 2>>

Thresholds == {DefaultThresholds, <<3, 0>>, <<2, 4>>, <<0, 0>>}

\* Scenario 3 of the testable properties, as z-scores under the defaults:
\* longs = [0,1,0,0,0], shorts = [0,0,0,1,0], exits = [0,0,1,0,0]
LatchScenario == <<3, -4, 0, 4, 3>>

ZSeries == SeqsUpTo(ZScores, MaxBars) \cup {LatchScenario}

\* the exit test compares with the entry threshold
NewPairs_ExitUsesEntry(zs, z_entry, z_exit) ==
    [k \in 1..Len(zs) |->
        [zscore |-> zs[k],
         longs  |-> IF zs[k] <= -z_entry THEN 1 ELSE 0,
         shorts |-> IF zs[k] >= z_entry THEN 1 ELSE 0,
         exits  |-> IF Abs(zs[k]) <= z_entry THEN 1 ELSE 0,
         long_market |-> 0, short_market |-> 0]]

\* the table after lines 137-146: the trigger columns and two zero columns
NewPairs(zs, z_entry, z_exit) ==
    [k \in 1..Len(zs) |->
        [zscore |-> zs[k],
         longs  |-> IF zs[k] <= -z_entry THEN 1 ELSE 0,
         shorts |-> IF zs[k] >= z_entry THEN 1 ELSE 0,
         exits  |-> IF Abs(zs[k]) <= z_exit THEN 1 ELSE 0,
         long_market |-> 0, short_market |-> 0]]

IdleLatch ==
    /\ z_entry_threshold = DefaultThresholds[1]
    /\ z_exit_threshold = DefaultThresholds[2]
    /\ pairs = <<>>
    /\ i = 0
    /\ long_market = 0
    /\ short_market = 0

IdleDrawdowns ==
    /\ equity_curve = <<>>
    /\ t = 0
    /\ hwm = <<>>
    /\ drawdown = <<>>
    /\ duration = <<>>
    /\ dd_result = <<NaN, NaN>>

IdleAcct ==
    /\ bars = <<>>
    /\ signals = <<>>
    /\ initial_capital = 0
    /\ positions = <<>>
    /\ portfolio = <<>>

InitLatch ==
    /\ running = "latch"
    /\ pc = "run"
    /\ \E zs \in ZSeries, th \in Thresholds :
          /\ z_entry_threshold = th[1]
          /\ z_exit_threshold = th[2]
          /\ pairs = NewPairs(zs, th[1], th[2])
    /\ i = 0
    /\ long_market = 0
    /\ short_market = 0
    /\ IdleDrawdowns
    /\ IdleAcct

\* one iteration of `for i, b in enumerate(pairs.iterrows())`; the two
\* assignments through pairs.iloc[i] write into the table (all columns are
\* floats, so the row is a view)
LatchStep ==
    /\ running = "latch"
    /\ pc = "run"
    /\ i < Len(pairs)
    /\ LET fl == LatchRow(long_market, short_market, pairs[i + 1])
       IN  /\ long_market' = fl[1]
           /\ short_market' = fl[2]
           /\ pairs' = [pairs EXCEPT ![i + 1].long_market = fl[1],
                                     ![i + 1].short_market = fl[2]]
    /\ i' = i + 1
    /\ UNCHANGED <<running, pc, z_entry_threshold, z_exit_threshold>>
    /\ UNCHANGED ddVars
    /\ UNCHANGED acctVars

LatchReturn ==
    /\ running = "latch"
    /\ pc = "run"
    /\ i = Len(pairs)
    /\ pc' = "done"
    /\ UNCHANGED running
    /\ UNCHANGED latchVars
    /\ UNCHANGED ddVars
    /\ UNCHANGED acctVars

(***************************************************************************)
(* create_drawdowns                                                        *)
(***************************************************************************)
\* python's s[k] on a sequence kept from index 1
Py(s, k) == s[k + 1]

EquityValues == {-5, 0, 90, 100}

\* Scenario 2 of the testable properties
DrawdownScenario == <<100, 90, 95, 80, 85, 120>>

Curves == SeqsUpTo(EquityValues, MaxCurve) \cup {DrawdownScenario}

\* pd.Series(index = eq_idx): every cell NaN
EmptySeries(n) == [k \in 1..n |-> NaN]

\* Series.max(): the largest defined cell, NaN when there is none
SeriesMax(s) ==
    LET defd == {s[k].v : k \in {j \in 1..Len(s) : ~s[j].nan}}
    IN  IF defd = {} THEN NaN
        ELSE F(CHOOSE m \in defd : \A x \in defd : m >= x)

\* line 48: 0 if drawdown[t] == 0 else duration[t-1] + 1
NextDuration(dd, prev) == IF FEq(dd, F(0)) THEN F(0) ELSE FAdd(prev, F(1))

\* line 38: the seed of the high-water mark list
HwmSeed(eq) == <<0>>

InitDrawdowns ==
    /\ running = "drawdowns"
    /\ pc = "run"
    /\ \E eq \in Curves :
          /\ equity_curve = eq
          /\ hwm = HwmSeed(eq)
          /\ drawdown = EmptySeries(Len(eq))
          /\ duration = EmptySeries(Len(eq))
    /\ t = 1
    /\ dd_result = <<NaN, NaN>>
    /\ IdleLatch
    /\ IdleAcct

\* one iteration of `for t in range(1, len(eq_idx))`
DrawdownStep ==
    /\ running = "drawdowns"
    /\ pc = "run"
    /\ t < Len(equity_curve)
    /\ LET cur_hwm == Max2(Py(hwm, t - 1), Py(equity_curve, t))
           dd == F(cur_hwm - Py(equity_curve, t))
       IN  /\ hwm' = Append(hwm, cur_hwm)
           /\ drawdown' = [drawdown EXCEPT ![t + 1] = dd]
           /\ duration' = [duration EXCEPT
                              ![t + 1] = NextDuration(dd, Py(duration, t - 1))]
    /\ t' = t + 1
    /\ UNCHANGED <<running, pc, equity_curve, dd_result>>
    /\ UNCHANGED latchVars
    /\ UNCHANGED acctVars

\* line 49: return drawdown.max(), duration.max()
DrawdownReturn ==
    /\ running = "drawdowns"
    /\ pc = "run"
    /\ t >= Len(equity_curve)
    /\ dd_result' = <<SeriesMax(drawdown), SeriesMax(duration)>>
    /\ pc' = "done"
    /\ UNCHANGED <<running, equity_curve, t, hwm, drawdown, duration>>
    /\ UNCHANGED latchVars
    /\ UNCHANGED acctVars

(***************************************************************************)
(* MarketOnOpenPortfolio and MarketOnClosePortfolio                        *)
(***************************************************************************)
SignalValues == {-1, 0, 1}

Prices == {10, 11}

Bars == [Open : Prices, Close : Prices]

InitialCapitals == {0, 1000}

\* Scenario 1 of the testable properties: positions
\* [0,0,0,0,0,100,100,-100,-100] at 100 units a signal, opens as given
ScenarioSignals == <<0, 0, 0, 0, 0, 1, 1, -1, -1>>

ScenarioOpens == <<10, 10, 10, 10, 10, 10, 11, 12, 9>>

ScenarioBars == [k \in 1..9 |-> [Open |-> ScenarioOpens[k], Close |-> ScenarioOpens[k]]]

\* <<signals, bars, initial_capital>> of the scenario
ScenarioInput == <<ScenarioSignals, ScenarioBars, 1000>>

AcctInputs ==
    {<<sg, bs, ic>> : sg \in SeqsUpTo(SignalValues, MaxDays),
                      bs \in SeqsUpTo(Bars, MaxDays),
                      ic \in InitialCapitals}

\* generate_positions: 100 units of the symbol per signal
generate_positions(sg) == [k \in 1..Len(sg) |-> F(100 * sg[k])]

\* Series.diff(): the first cell is NaN
Diff(s) == [k \in 1..Len(s) |-> IF k = 1 THEN NaN ELSE FSub(s[k], s[k - 1])]

\* element-wise product of a column with a price column, row by row on the
\* shared date index (for positions * bars['Open'], a DataFrame times a
\* Series, this is the time-series broadcasting the script relies on)
Times(s, px) == [k \in 1..Len(s) |-> FMul(s[k], F(px[k]))]

\* DataFrame.sum(axis=1) over the single symbol column: NaN is skipped,
\* so the sum of a row holding only NaN is 0
RowSum(s) == [k \in 1..Len(s) |-> IF s[k].nan THEN F(0) ELSE s[k]]

\* Series.cumsum(): NaN is skipped in the running sum and a NaN cell
\* stays NaN
RECURSIVE SumDefined(_, _)
SumDefined(s, k) ==
    IF k = 0 THEN 0
    ELSE (IF s[k].nan THEN 0 ELSE s[k].v) + SumDefined(s, k - 1)

CumSum(s) == [k \in 1..Len(s) |-> IF s[k].nan THEN NaN ELSE F(SumDefined(s, k))]

RECURSIVE GCD(_, _)
GCD(a, b) == IF b = 0 THEN a ELSE GCD(b, a % b)

\* a return cell: NaN, +inf, -inf or the fraction num/den in lowest terms
RNaN == [kind |-> "nan", num |-> 0, den |-> 1]

RInf(sign) == [kind |-> IF sign > 0 THEN "inf" ELSE "-inf", num |-> 0, den |-> 1]

Frac(n, d) ==
    LET g == GCD(Abs(n), Abs(d))
        sg == IF d < 0 THEN -1 ELSE 1
    IN  [kind |-> "num", num |-> sg * (n \div g), den |-> sg * (d \div g)]

\* one cell of Series.pct_change(): cur / prev - 1
PctCell(prev, cur) ==
    IF prev.nan \/ cur.nan THEN RNaN
    ELSE IF prev.v = 0
         THEN (IF cur.v = 0 THEN RNaN ELSE RInf(cur.v))
         ELSE Frac(cur.v - prev.v, prev.v)

PctChange(s) ==
    [k \in 1..Len(s) |-> IF k = 1 THEN RNaN ELSE PctCell(s[k - 1], s[k])]

Column(bs, name) == [k \in 1..Len(bs) |-> bs[k][name]]

\* RandomForecastStrategy.py lines 93-94
OpenHoldings(pos, bs) == RowSum(Times(pos, Column(bs, "Open")))

\* the trade value of each bar is subtracted without being cumulated
OpenCash_NoCumsum(pos, bs, ic) ==
    LET spent == RowSum(Times(Diff(pos), Column(bs, "Open")))
    IN  [k \in 1..Len(pos) |-> FSub(F(ic), spent[k])]

OpenCash(pos, bs, ic) ==
    LET spent == CumSum(RowSum(Times(Diff(pos), Column(bs, "Open"))))
    IN  [k \in 1..Len(pos) |-> FSub(F(ic), spent[k])]

\* ma_cross.py lines 82-83
CloseHoldings(pos, bs) == Times(pos, Column(bs, "Close"))

CloseCash(pos, bs, ic) ==
    LET spent == CumSum(Times(Diff(pos), Column(bs, "Close")))
    IN  [k \in 1..Len(pos) |-> FSub(F(ic), spent[k])]

\* lines 98-99 of RandomForecastStrategy.py, 85-86 of ma_cross.py
Totals(cash, holdings) == [k \in 1..Len(cash) |-> FAdd(cash[k], holdings[k])]

\* signal values that no strategy of the repository produces but that a
\* caller can hand to a Portfolio
InvalidSignalValues == {-2, 2}

\* short signal series holding at least one such value, on fixed bars
InvalidSignalInputs ==
    {<<sg, [k \in 1..Len(sg) |-> [Open |-> 10, Close |-> 11]], 1000>> :
        sg \in {x \in SeqsUpTo(SignalValues \cup InvalidSignalValues, 2) :
                  \E k \in 1..Len(x) : x[k] \in InvalidSignalValues}}

InitAcct ==
    /\ running \in {"open", "close"}
    /\ pc = "run"
    /\ \E inp \in AcctInputs \cup {ScenarioInput} \cup InvalidSignalInputs :
          /\ Len(inp[1]) = Len(inp[2])
          /\ signals = inp[1]
          /\ bars = inp[2]
          /\ initial_capital = inp[3]
          /\ positions = generate_positions(inp[1])
    /\ portfolio = <<>>
    /\ IdleLatch
    /\ IdleDrawdowns

\* MarketOnOpenPortfolio.backtest_portfolio
OpenBacktest ==
    /\ running = "open"
    /\ pc = "run"
    /\ LET symcol   == Times(positions, Column(bars, "Open"))
           holdings == OpenHoldings(positions, bars)
           cash     == OpenCash(positions, bars, initial_capital)
           total    == Totals(cash, holdings)
           returns  == PctChange(total)
       IN  portfolio' = [k \in 1..Len(positions) |->
                           [symbol |-> symcol[k], holdings |-> holdings[k],
                            cash |-> cash[k], total |-> total[k],
                            returns |-> returns[k]]]
    /\ pc' = "done"
    /\ UNCHANGED <<running, bars, signals, initial_capital, positions>>
    /\ UNCHANGED latchVars
    /\ UNCHANGED ddVars

\* MarketOnClosePortfolio.backtest_portfolio
CloseBacktest ==
    /\ running = "close"
    /\ pc = "run"
    /\ LET holdings == CloseHoldings(positions, bars)
           cash     == CloseCash(positions, bars, initial_capital)
           total    == Totals(cash, holdings)
           returns  == PctChange(total)
       IN  portfolio' = [k \in 1..Len(positions) |->
                           [holdings |-> holdings[k],
                            cash |-> cash[k], total |-> total[k],
                            returns |-> returns[k]]]
    /\ pc' = "done"
    /\ UNCHANGED <<running, bars, signals, initial_capital, positions>>
    /\ UNCHANGED latchVars
    /\ UNCHANGED ddVars

(***************************************************************************)
(* MarketIntradayPortfolio                                                 *)
(***************************************************************************)
\* snp_forecast.py line 131: the slice [0:5]
WarmUpBars == 5

\* one day of input: a signal and its bar
IntradayDays ==
    {[signal |-> sg, Open |-> b[1], Close |-> b[2]] :
        sg \in {-1, 1}, b \in {<<10, 11>>, <<11, 10>>}}

IntradayInputs ==
    {<<[k \in 1..Len(ds) |-> ds[k].signal],
       [k \in 1..Len(ds) |-> [Open |-> ds[k].Open, Close |-> ds[k].Close]],
       ic>> :
        ds \in SeqsUpTo(IntradayDays, WarmUpBars + MaxAfterWarmUp),
        ic \in InitialCapitals}

\* MarketIntradayPortfolio.generate_positions: 500 units per signal
generate_positions_intraday(sg) == [k \in 1..Len(sg) |-> F(500 * sg[k])]

\* lines 130-131: Close - Open, with the first five cells set to 0.0
\* the first five cells are left as they are
PriceDiff_NoWarmUp(bs) ==
    [k \in 1..Len(bs) |-> F(bs[k].Close - bs[k].Open)]

PriceDiff(bs) ==
    [k \in 1..Len(bs) |->
        IF k <= WarmUpBars THEN F(0) ELSE F(bs[k].Close - bs[k].Open)]

\* line 132
Profit(pos, pdiff) == [k \in 1..Len(pos) |-> FMul(pos[k], pdiff[k])]

\* line 135
IntradayTotal(ic, profit) ==
    LET cum == CumSum(profit)
    IN  [k \in 1..Len(profit) |-> FAdd(F(ic), cum[k])]

InitIntraday ==
    /\ running = "intraday"
    /\ pc = "run"
    /\ \E inp \in IntradayInputs \cup InvalidSignalInputs :
          /\ signals = inp[1]
          /\ bars = inp[2]
          /\ initial_capital = inp[3]
          /\ positions = generate_positions_intraday(inp[1])
    /\ portfolio = <<>>
    /\ IdleLatch
    /\ IdleDrawdowns

\* MarketIntradayPortfolio.backtest_portfolio
IntradayBacktest ==
    /\ running = "intraday"
    /\ pc = "run"
    /\ LET price_diff == PriceDiff(bars)
           profit     == Profit(positions, price_diff)
           total      == IntradayTotal(initial_capital, profit)
           returns    == PctChange(total)
       IN  portfolio' = [k \in 1..Len(positions) |->
                           [price_diff |-> price_diff[k], profit |-> profit[k],
                            total |-> total[k], returns |-> returns[k]]]
    /\ pc' = "done"
    /\ UNCHANGED <<running, bars, signals, initial_capital, positions>>
    /\ UNCHANGED latchVars
    /\ UNCHANGED ddVars

(***************************************************************************)
(* create_portfolio_returns                                                *)
(***************************************************************************)
\* a row of the pairs table as this routine reads it: the two closes and the
\* two occupancy columns written by the latch ((1,1) included, which the
\* latch can write)
PairsRows ==
    [spy_close : {10}, iwm_close : {11, 12},
     long_market : {0, 1}, short_market : {0, 1}]

RZero == [kind |-> "num", num |-> 0, den |-> 1]

ROne == [kind |-> "num", num |-> 1, den |-> 1]

RAdd(a, b) == Frac(a.num * b.den + b.num * a.den, a.den * b.den)

RMul(a, b) == Frac(a.num * b.num, a.den * b.den)

\* line 215: fillna(0.0)
FillNa(s) == [k \in 1..Len(s) |-> IF s[k].kind = "nan" THEN RZero ELSE s[k]]

\* line 216: replace([np.inf, -np.inf], 0.0)
ReplaceInf(s) ==
    [k \in 1..Len(s) |-> IF s[k].kind \in {"inf", "-inf"} THEN RZero ELSE s[k]]

\* line 217: replace(-1.0, 0.0)
ReplaceMinusOne(s) ==
    [k \in 1..Len(s) |-> IF s[k] = Frac(-1, 1) THEN RZero ELSE s[k]]

\* the replacement of line 217 is left out
CleanReturns_KeepMinusOne(s) == ReplaceInf(FillNa(s))

\* lines 215-217
CleanReturns(s) == ReplaceMinusOne(ReplaceInf(FillNa(s)))

\* line 220: (returns + 1.0).cumprod()
RECURSIVE CumProdPlusOne(_, _)
CumProdPlusOne(s, k) ==
    IF k = 0 THEN ROne ELSE RMul(CumProdPlusOne(s, k - 1), RAdd(s[k], ROne))

InitReturns ==
    /\ running = "returns"
    /\ pc = "run"
    /\ pairs \in SeqsUpTo(PairsRows, MaxPairs)
    /\ z_entry_threshold = DefaultThresholds[1]
    /\ z_exit_threshold = DefaultThresholds[2]
    /\ i = 0
    /\ long_market = 0
    /\ short_market = 0
    /\ IdleDrawdowns
    /\ IdleAcct

\* create_portfolio_returns, sym1 = spy and sym2 = iwm
ReturnsRun ==
    /\ running = "returns"
    /\ pc = "run"
    /\ LET n    == Len(pairs)
           pos  == [k \in 1..n |-> F(pairs[k].long_market - pairs[k].short_market)]
           sym1 == [k \in 1..n |-> FMul(F(-1 * pairs[k].spy_close), pos[k])]
           sym2 == [k \in 1..n |-> FMul(F(pairs[k].iwm_close), pos[k])]
           total == [k \in 1..n |-> FAdd(sym1[k], sym2[k])]
           rets == CleanReturns(PctChange(total))
       IN  portfolio' = [k \in 1..n |->
                           [positions |-> pos[k], spy |-> sym1[k], iwm |-> sym2[k],
                            total |-> total[k],
                            returns |-> CumProdPlusOne(rets, k)]]
    /\ pc' = "done"
    /\ UNCHANGED <<running, bars, signals, initial_capital, positions>>
    /\ UNCHANGED latchVars
    /\ UNCHANGED ddVars

Init == InitLatch \/ InitDrawdowns \/ InitAcct \/ InitIntraday \/ InitReturns

Next ==
    \/ LatchStep
    \/ LatchReturn
    \/ DrawdownStep
    \/ DrawdownReturn
    \/ OpenBacktest
    \/ CloseBacktest
    \/ IntradayBacktest
    \/ ReturnsRun

Spec == Init /\ [][Next]_vars

(***************************************************************************)
(* Properties                                                              *)
(***************************************************************************)
Col(tbl, name) == [k \in 1..Len(tbl) |-> tbl[k][name]]

AcctDone == running \in {"open", "close"} /\ pc = "done"

\* C1: in the open-fill and close-fill accountants, at every timestep
\* (t = 0 included) cash, holdings and total are defined and
\* total[t] = cash[t] + holdings[t].
C1_TotalIsCashPlusHoldings ==
    AcctDone =>
        \A k \in 1..Len(portfolio) :
            /\ IsDef(portfolio[k].cash)
            /\ IsDef(portfolio[k].holdings)
            /\ IsDef(portfolio[k].total)
            /\ portfolio[k].total.v = portfolio[k].cash.v + portfolio[k].holdings.v

\* C2: at every bar the latch has written, long_market and short_market
\* are never both 1.
C2_MutualExclusion ==
    running = "latch" =>
        \A k \in 1..i : pairs[k].long_market * pairs[k].short_market = 0

\* the three-state machine of the design: exit, else long, else short,
\* else carry
MachineNext(st, row) ==
    IF row.exits = 1 THEN "FLAT"
    ELSE IF row.longs = 1 THEN "LONG"
    ELSE IF row.shorts = 1 THEN "SHORT"
    ELSE st

RECURSIVE MachineState(_, _)
MachineState(tbl, k) ==
    IF k = 0 THEN "FLAT" ELSE MachineNext(MachineState(tbl, k - 1), tbl[k])

MachineFlags(st) ==
    IF st = "LONG" THEN <<1, 0>> ELSE IF st = "SHORT" THEN <<0, 1>> ELSE <<0, 0>>

\* C3: run side by side with the FLAT/LONG/SHORT machine, the two flags
\* written at every bar are the encoding of the machine's state at that bar.
C3_RefinesStateMachine ==
    running = "latch" =>
        \A k \in 1..i :
            <<pairs[k].long_market, pairs[k].short_market>>
                = MachineFlags(MachineState(pairs, k))

LatchScenarioDone ==
    /\ running = "latch"
    /\ pc = "done"
    /\ Col(pairs, "longs") = <<0, 1, 0, 0, 0>>
    /\ Col(pairs, "shorts") = <<0, 0, 0, 1, 0>>
    /\ Col(pairs, "exits") = <<0, 0, 1, 0, 0>>

\* C4 as stated: on the scenario triggers the latch yields
\* long_market = [0,1,1,0,0] and short_market = [0,0,0,1,1].
C4_ScenarioAsStated ==
    LatchScenarioDone =>
        /\ Col(pairs, "long_market") = <<0, 1, 1, 0, 0>>
        /\ Col(pairs, "short_market") = <<0, 0, 0, 1, 1>>

\* C4 amended: on the scenario triggers the latch yields
\* long_market = [0,1,0,0,0] and short_market = [0,0,0,1,1]: the long
\* occupancy is cleared on the very bar whose exit trigger fires.
C4_ScenarioAmended ==
    LatchScenarioDone =>
        /\ Col(pairs, "long_market") = <<0, 1, 0, 0, 0>>
        /\ Col(pairs, "short_market") = <<0, 0, 0, 1, 1>>

C4_Witness ==
    /\ LatchScenarioDone
    /\ pairs[2].long_market = 1
    /\ pairs[3].long_market = 0

DrawdownsDone == running = "drawdowns" /\ pc = "done"

RunningMax(eq, k) == CHOOSE m \in {eq[j] : j \in 1..k} : \A j \in 1..k : m >= eq[j]

\* largest peak-to-trough decline, the first bar being a possible peak
PeakToTrough(eq) ==
    LET dds == {RunningMax(eq, k) - eq[k] : k \in 1..Len(eq)}
    IN  CHOOSE m \in dds : \A x \in dds : m >= x

\* C5: create_drawdowns returns the largest peak-to-trough decline of the
\* curve, the high-water mark being seeded with equity[0]; 20 on the
\* scenario curve.
C5_MaxDrawdown ==
    DrawdownsDone =>
        /\ hwm[1] = equity_curve[1]
        /\ FEq(dd_result[1], F(PeakToTrough(equity_curve)))
        /\ equity_curve = DrawdownScenario => FEq(dd_result[1], F(20))

\* length of the run of strictly positive drawdown cells ending at k
RECURSIVE PositiveRun(_, _)
PositiveRun(dd, k) ==
    IF k = 0 THEN 0
    ELSE IF IsDef(dd[k]) /\ dd[k].v > 0 THEN PositiveRun(dd, k - 1) + 1
    ELSE 0

LongestPositiveRun(dd) ==
    LET runs == {PositiveRun(dd, k) : k \in 1..Len(dd)}
    IN  CHOOSE m \in runs : \A x \in runs : m >= x

\* C6: create_drawdowns returns the length of the longest run of bars with
\* strictly positive drawdown, every duration cell being defined and
\* following duration[t] = 0 if drawdown[t] == 0 else duration[t-1] + 1;
\* 3 on the scenario curve.
C6_MaxDuration ==
    DrawdownsDone =>
        /\ \A k \in 1..Len(duration) : IsDef(duration[k])
        /\ FEq(dd_result[2], F(LongestPositiveRun(drawdown)))
        /\ equity_curve = DrawdownScenario => FEq(dd_result[2], F(3))

\* C7: at every timestep of the scan, t = 0 included, hwm[t] >= equity[t],
\* and hwm[t] >= hwm[t-1] for t >= 1.
C7_HwmInvariant ==
    running = "drawdowns" =>
        \A k \in 1..Len(hwm) :
            /\ hwm[k] >= equity_curve[k]
            /\ k >= 2 => hwm[k] >= hwm[k - 1]

\* C8: at every timestep drawdown and duration are defined and
\* non-negative, and duration[t] == 0 exactly when drawdown[t] == 0.
C8_DrawdownDurationInvariant ==
    DrawdownsDone =>
        \A k \in 1..Len(equity_curve) :
            /\ IsDef(drawdown[k])
            /\ IsDef(duration[k])
            /\ drawdown[k].v >= 0
            /\ duration[k].v >= 0
            /\ (duration[k].v = 0) <=> (drawdown[k].v = 0)

FillPrice(k) == IF running = "open" THEN bars[k].Open ELSE bars[k].Close

\* sum over s <= k of pos_diff[s] * fill_price[s], pos_diff[0] = position[0]
RECURSIVE Spent(_)
Spent(k) ==
    IF k = 0 THEN 0
    ELSE Spent(k - 1)
         + (positions[k].v - (IF k = 1 THEN 0 ELSE positions[k - 1].v)) * FillPrice(k)

\* C9: in both accountants cash[t] = initial_capital - sum over s <= t of
\* pos_diff[s] * fill_price[s] with pos_diff[0] = position[0].
C9_CashLedger ==
    AcctDone =>
        \A k \in 1..Len(portfolio) :
            FEq(portfolio[k].cash, F(initial_capital - Spent(k)))

OpenDone == running = "open" /\ pc = "done"

OpenScenario ==
    /\ Col(positions, "v") = <<0, 0, 0, 0, 0, 100, 100, -100, -100>>
    /\ Col(bars, "Open") = ScenarioOpens
    /\ initial_capital = ScenarioInput[3]

\* C10: in the open-fill accountant, for every t >= 1,
\* cash[t] - cash[t-1] = -(position[t] - position[t-1]) * open[t] and
\* total[t] - total[t-1] = position[t-1] * (open[t] - open[t-1]); on the
\* scenario cash drops by 1000 at index 5 and total[5] = 1000.
C10_TradeKeepsEquity ==
    OpenDone =>
        /\ \A k \in 2..Len(portfolio) :
              /\ FEq(FSub(portfolio[k].cash, portfolio[k - 1].cash),
                      F(-(positions[k].v - positions[k - 1].v) * bars[k].Open))
              /\ FEq(FSub(portfolio[k].total, portfolio[k - 1].total),
                      F(positions[k - 1].v * (bars[k].Open - bars[k - 1].Open)))
        /\ OpenScenario =>
              /\ FEq(FSub(portfolio[5].cash, portfolio[6].cash), F(1000))
              /\ FEq(portfolio[6].total, F(1000))

C10_Witness ==
    /\ OpenDone
    /\ OpenScenario
    /\ portfolio[5].cash = F(1000)
    /\ portfolio[6].cash = F(0)

ValidSignals == \A k \in 1..Len(signals) : signals[k] \in {-1, 0, 1}

LotSize == IF running = "intraday" THEN 500 ELSE 100

\* C11: generate_positions returns position[t] = lot_size * signal[t] only
\* for signals in {-1, 0, 1}; with a signal outside that domain it fails with
\* InvalidSignalValue and no position series exists.
C11_RejectsInvalidSignal ==
    running \in {"open", "close", "intraday"} =>
        IF ValidSignals
        THEN /\ Len(positions) = Len(signals)
             /\ \A k \in 1..Len(signals) :
                    FEq(positions[k], F(LotSize * signals[k]))
        ELSE positions = <<>>

IntradayDone == running = "intraday" /\ pc = "done"

\* sum over s <= k of position[s] * (close[s] - open[s]), the warm-up bars
\* counting for nothing
RECURSIVE IntradayGain(_)
IntradayGain(k) ==
    IF k = 0 THEN 0
    ELSE IntradayGain(k - 1)
         + (IF k <= 5 THEN 0 ELSE positions[k].v * (bars[k].Close - bars[k].Open))

ReturnsDone == running = "returns" /\ pc = "done"

\* the growth factor of bar k when only the undefined return (first bar,
\* flat to flat) and the infinite return (zero to non-zero) are replaced by 0
ClaimedFactor(k) ==
    IF k = 1 \/ portfolio[k - 1].total.v = 0 THEN ROne
    ELSE Frac(portfolio[k].total.v, portfolio[k - 1].total.v)

RECURSIVE ClaimedCurve(_)
ClaimedCurve(k) == IF k = 0 THEN ROne ELSE RMul(ClaimedCurve(k - 1), ClaimedFactor(k))

\* C12: in create_portfolio_returns a period return is replaced by 0 only
\* when it is undefined (first bar, flat to flat) or infinite (zero to
\* non-zero); every other return, the -100% of a non-zero to zero step
\* included, enters the cumulative equity curve unchanged.
C12_OnlyTwoSubstitutions ==
    ReturnsDone =>
        \A k \in 1..Len(portfolio) : portfolio[k].returns = ClaimedCurve(k)

\* the growth factor of bar k when, besides, the return -1.0 of a non-zero
\* to zero step is replaced by 0
AmendedFactor(k) ==
    IF k = 1 \/ portfolio[k - 1].total.v = 0 \/ portfolio[k].total.v = 0 THEN ROne
    ELSE Frac(portfolio[k].total.v, portfolio[k - 1].total.v)

RECURSIVE AmendedCurve(_)
AmendedCurve(k) == IF k = 0 THEN ROne ELSE RMul(AmendedCurve(k - 1), AmendedFactor(k))

\* C12 amended: a period return is replaced by 0 in three cases: undefined
\* (first bar, flat to flat), infinite (zero to non-zero) and equal to -1.0
\* (non-zero to zero, a position being exited); every other return enters
\* the cumulative equity curve unchanged.
C12_ThreeSubstitutions ==
    ReturnsDone =>
        \A k \in 1..Len(portfolio) : portfolio[k].returns = AmendedCurve(k)

C12_Witness ==
    /\ ReturnsDone
    /\ Len(portfolio) = 3
    /\ portfolio[1].total.v # 0
    /\ portfolio[2].total.v # 0
    /\ portfolio[2].total.v # portfolio[1].total.v
    /\ portfolio[3].total.v = 0
    /\ portfolio[2].returns # ROne
    /\ portfolio[3].returns = portfolio[2].returns

CloseEqualsOpen == \A k \in 1..Len(bars) : bars[k].Close = bars[k].Open

\* the table the other of the two accountants yields on the same input
OtherHoldings ==
    IF running = "open" THEN CloseHoldings(positions, bars)
    ELSE OpenHoldings(positions, bars)

OtherCash ==
    IF running = "open" THEN CloseCash(positions, bars, initial_capital)
    ELSE OpenCash(positions, bars, initial_capital)

\* C13: on bars whose close equals their open, the close-fill and the
\* open-fill accountants yield the same holdings, cash, total and returns at
\* every timestep, t = 0 and t = 1 included (an undefined cell counting as
\* equal to an undefined cell).
C13_CloseSameAsOpen ==
    (AcctDone /\ CloseEqualsOpen) =>
        LET total == Totals(OtherCash, OtherHoldings)
            returns == PctChange(total)
        IN  \A k \in 1..Len(portfolio) :
                /\ portfolio[k].holdings = OtherHoldings[k]
                /\ portfolio[k].cash = OtherCash[k]
                /\ portfolio[k].total = total[k]
                /\ portfolio[k].returns = returns[k]

NetPosition(k) == pairs[k].long_market - pairs[k].short_market

NoExitBetween(a, b) == \A u \in (a + 1)..b : pairs[u].exits = 0

\* C15: among the bars the latch has written, a flag that is 1 at bar a is
\* 1 at every later bar b with no exit trigger in a+1..b; at a bar with an
\* exit trigger both flags are 0; and the net position
\* long_market - short_market never goes from +1 to -1 or from -1 to +1
\* between two consecutive bars.
C15_LatchedUntilExit ==
    running = "latch" =>
        /\ \A a \in 1..i : \A b \in a..i :
              NoExitBetween(a, b) =>
                  /\ pairs[a].long_market = 1 => pairs[b].long_market = 1
                  /\ pairs[a].short_market = 1 => pairs[b].short_market = 1
        /\ \A u \in 1..i :
              pairs[u].exits = 1 =>
                  pairs[u].long_market = 0 /\ pairs[u].short_market = 0
        /\ \A k \in 1..(i - 1) : NetPosition(k) * NetPosition(k + 1) # -1

C15_Witness ==
    /\ running = "latch"
    /\ i = 3
    /\ pairs[1].long_market = 1
    /\ pairs[2].shorts = 1
    /\ pairs[2].exits = 0
    /\ pairs[2].long_market = 1
    /\ pairs[3].exits = 1
    /\ pairs[3].long_market = 0

\* the three tests of the loop body taken in another order: exit first,
\* then short, then long
LatchRowExitFirst(lm, sm, row) ==
    LET lm0 == IF row.exits = 1 THEN 0 ELSE lm
        sm0 == IF row.exits = 1 THEN 0 ELSE sm
    IN  <<IF row.longs = 1 THEN 1 ELSE lm0, IF row.shorts = 1 THEN 1 ELSE sm0>>

FlagsBefore(k) ==
    IF k = 1 THEN <<0, 0>> ELSE <<pairs[k - 1].long_market, pairs[k - 1].short_market>>

ThresholdsOrdered == z_entry_threshold > z_exit_threshold /\ z_exit_threshold >= 0

\* C16: when z_entry_threshold > z_exit_threshold >= 0, at most one of
\* longs[t], shorts[t], exits[t] is 1 on every bar, and the flags written
\* at each bar are those the three tests yield in another order.
C16_TriggersExclusive ==
    (running = "latch" /\ ThresholdsOrdered) =>
        /\ \A k \in 1..Len(pairs) :
              pairs[k].longs + pairs[k].shorts + pairs[k].exits <= 1
        /\ \A k \in 1..i :
              <<pairs[k].long_market, pairs[k].short_market>>
                  = LatchRowExitFirst(FlagsBefore(k)[1], FlagsBefore(k)[2], pairs[k])

C16_Witness ==
    /\ running = "latch"
    /\ ThresholdsOrdered
    /\ pc = "done"
    /\ \E a, b, c \in 1..Len(pairs) :
          pairs[a].longs = 1 /\ pairs[b].shorts = 1 /\ pairs[c].exits = 1
====
